---- MODULE Spec2Model ----
(***************************************************************************)
(* Model of Model4AutonomousVehicles.py: the multi-modal negative          *)
(* log-likelihood loss (pytorch_neg_multi_log_likelihood_batch and its     *)
(* single-mode wrapper) and the LyftMultiModel trajectory decoder.         *)
(*                                                                         *)
(* Numbers.  A tensor element is a pair <<n, d>>: the rational n/d in      *)
(* lowest terms when d > 0, and the IEEE specials when d = 0               *)
(* (<<0,0>> NaN, <<1,0>> +inf, <<-1,0>> -inf).  Arithmetic is exact:       *)
(* rounding and overflow of the floating-point format are not modelled.    *)
(* A value produced by torch.log is kept symbolically as a + ln(c); a      *)
(* value produced by torch.exp and summed is a finite sum of terms         *)
(* c * exp(e) with rational c and e.  Distinct rational exponents give     *)
(* linearly independent exponentials, so two such sums denote the same     *)
(* real number iff they are equal as sets of terms.                        *)
(***************************************************************************)
EXTENDS Integers, Sequences, FiniteSets, TLC

\* ------------------------------------------------------------------ bounds
MaxB == 2
MaxM == 2
MaxT == 2
MaxCoord == 1
MaxLogit == 1

\* --------------------------------------------------------- exact rationals
NaN == <<0, 0>>
PInf == <<1, 0>>
NInf == <<-1, 0>>

Abs(i) == IF i < 0 THEN -i ELSE i

Sign(i) == IF i < 0 THEN -1 ELSE IF i > 0 THEN 1 ELSE 0

Max2(i, j) == IF i >= j THEN i ELSE j

RECURSIVE GCD(_, _)
GCD(i, j) == IF j = 0 THEN i ELSE GCD(j, i % j)

\* n/d (d # 0) in lowest terms with a positive denominator.
Norm(n, d) ==
    LET g == GCD(Abs(n), Abs(d))
        s == IF d < 0 THEN -1 ELSE 1
    IN  <<(s * n) \div g, (s * d) \div g>>

R(i) == <<i, 1>>

IsFinite(x) == x[2] > 0

IsNaN(x) == x = NaN

\* IEEE addition: NaN absorbs, inf + (-inf) is NaN, inf absorbs a finite value.
Add(x, y) ==
    IF IsNaN(x) \/ IsNaN(y) THEN NaN
    ELSE IF ~IsFinite(x) /\ ~IsFinite(y) THEN (IF x = y THEN x ELSE NaN)
    ELSE IF ~IsFinite(x) THEN x
    ELSE IF ~IsFinite(y) THEN y
    ELSE Norm(x[1] * y[2] + y[1] * x[2], x[2] * y[2])

Neg(x) == <<-x[1], x[2]>>

Sub(x, y) == Add(x, Neg(y))

\* IEEE multiplication: 0 * inf is NaN.
Mul(x, y) ==
    IF IsNaN(x) \/ IsNaN(y) THEN NaN
    ELSE IF IsFinite(x) /\ IsFinite(y) THEN Norm(x[1] * y[1], x[2] * y[2])
    ELSE IF x[1] = 0 \/ y[1] = 0 THEN NaN
    ELSE <<Sign(x[1]) * Sign(y[1]), 0>>

Square(x) == Mul(x, x)

\* x <= y for finite x, y.
Leq(x, y) == x[1] * y[2] <= y[1] * x[2]

Half == <<1, 2>>

\* ----------------------------------------------------------------- tensors
\* A tensor is [shape, data]: data holds the elements in row-major order, as
\* a sequence (\o turns a function on 1..n into one).
RECURSIVE Prod(_)
Prod(s) == IF s = <<>> THEN 1 ELSE Head(s) * Prod(Tail(s))

Tensor(shape, data) == [shape |-> shape, data |-> data \o <<>>]

\* Row-major offset (1-based) of multi-index idx in a tensor of shape s.
RECURSIVE Offset0(_, _)
Offset0(s, idx) ==
    IF s = <<>> THEN 0
    ELSE (Head(idx) - 1) * Prod(Tail(s)) + Offset0(Tail(s), Tail(idx))

Offset(s, idx) == Offset0(s, idx) + 1

\* Multi-index of the k-th element (1-based) of a tensor of shape s.
RECURSIVE Unflat0(_, _)
Unflat0(s, k) ==
    IF s = <<>> THEN <<>>
    ELSE <<(k \div Prod(Tail(s))) + 1>> \o Unflat0(Tail(s), k % Prod(Tail(s)))

Unflat(s, k) == Unflat0(s, k - 1)

At(t, idx) == t.data[Offset(t.shape, idx)]

\* torch.unsqueeze(t, dim) (dim 0-based): a size-1 axis is inserted.
Unsqueeze(t, dim) ==
    Tensor(SubSeq(t.shape, 1, dim) \o <<1>> \o SubSeq(t.shape, dim + 1, Len(t.shape)),
           t.data)

\* Broadcasting of equal-rank tensors: a size-1 axis is read at index 1.
BShape(a, b) == [i \in 1..Len(a.shape) |-> Max2(a.shape[i], b.shape[i])]

BIndex(t, idx) == [i \in 1..Len(idx) |-> IF t.shape[i] = 1 THEN 1 ELSE idx[i]]

Map2(Op(_, _), a, b) ==
    LET s == BShape(a, b)
    IN  Tensor(s, [k \in 1..Prod(s) |->
                     LET i == Unflat(s, k) IN Op(At(a, BIndex(a, i)), At(b, BIndex(b, i)))])

Map1(Op(_), a) == Tensor(a.shape, [k \in 1..Len(a.data) |-> Op(a.data[k])])

RECURSIVE FoldSeq(_, _, _)
FoldSeq(Op(_, _), acc, s) ==
    IF s = <<>> THEN acc ELSE FoldSeq(Op, Op(acc, Head(s)), Tail(s))

\* Reduction of the last axis with Op from zero: torch.sum(t, dim=-1).
ReduceLast(Op(_, _), zero, t) ==
    LET n == t.shape[Len(t.shape)]
        s == SubSeq(t.shape, 1, Len(t.shape) - 1)
    IN  Tensor(s, [k \in 1..Prod(s) |->
                     FoldSeq(Op, zero, SubSeq(t.data, (k - 1) * n + 1, k * n))])

SumLast(t) == ReduceLast(Add, R(0), t)

\* torch.isnan in place of torch.isfinite: an infinity passes.
AllNotNaN(t) == \A k \in 1..Len(t.data) : ~IsNaN(t.data[k])

\* torch.isfinite(t).all()
AllFinite(t) == \A k \in 1..Len(t.data) : IsFinite(t.data[k])

\* ------------------------------------------- symbolic logarithms and sums
\* The result of torch.log: a + ln(c) with rational a and c > 0 (k = "fin"),
\* or NaN / -inf / +inf.
SymFin(a, c) == [k |-> "fin", a |-> a, c |-> c]

SymNaN == [k |-> "nan", a |-> R(0), c |-> R(1)]

SymNInf == [k |-> "ninf", a |-> R(0), c |-> R(1)]

SymPInf == [k |-> "pinf", a |-> R(0), c |-> R(1)]

\* A logarithm that clamps its argument away from 0.
LogClamped(x) ==
    IF IsNaN(x) THEN SymNaN
    ELSE IF x = PInf THEN SymPInf
    ELSE IF x[1] < 0 THEN SymNaN
    ELSE IF x[1] = 0 THEN SymFin(R(0), <<1, 12>>)
    ELSE SymFin(R(0), x)

\* torch.log on one element: log(0) = -inf, log of a negative number is NaN.
Log(x) ==
    IF IsNaN(x) THEN SymNaN
    ELSE IF x = PInf THEN SymPInf
    ELSE IF x[1] < 0 THEN SymNaN
    ELSE IF x[1] = 0 THEN SymNInf
    ELSE SymFin(R(0), x)

\* s - r for a real r.
SymSubReal(s, r) ==
    IF s.k = "nan" \/ IsNaN(r) THEN SymNaN
    ELSE IF r = PInf THEN (IF s.k = "pinf" THEN SymNaN ELSE SymNInf)
    ELSE IF r = NInf THEN (IF s.k = "ninf" THEN SymNaN ELSE SymPInf)
    ELSE IF s.k = "fin" THEN SymFin(Sub(s.a, r), s.c)
    ELSE s

\* s - t: (-inf) - (-inf) and inf - inf are NaN.
SymSub(s, t) ==
    IF s.k = "nan" \/ t.k = "nan" THEN SymNaN
    ELSE IF s.k = "fin" /\ t.k = "fin" THEN SymFin(Sub(s.a, t.a), Mul(s.c, <<t.c[2], t.c[1]>>))
    ELSE IF s.k = t.k THEN SymNaN
    ELSE IF s.k = "fin" THEN (IF t.k = "ninf" THEN SymPInf ELSE SymNInf)
    ELSE s

\* Natural logarithms of 1..12 in units of 1e-6: only the order of two
\* log-scores is read from them.
LnMicro ==
    <<0, 693147, 1098612, 1386294, 1609438, 1791759,
      1945910, 2079442, 2197225, 2302585, 2397895, 2484907>>

Approx(s) ==
    (s.a[1] \div s.a[2]) * 1000000 + ((s.a[1] % s.a[2]) * 1000000) \div s.a[2]
      + LnMicro[s.c[1]] - LnMicro[s.c[2]]

\* The larger of two log-scores; NaN propagates as in torch.max.
SymMax(s, t) ==
    IF s.k = "nan" \/ t.k = "nan" THEN SymNaN
    ELSE IF s.k = "pinf" \/ t.k = "pinf" THEN SymPInf
    ELSE IF s.k = "ninf" THEN t
    ELSE IF t.k = "ninf" THEN s
    ELSE IF Approx(s) >= Approx(t) THEN s ELSE t

\* A sum of exponentials: the set p of terms [e, c], each c * exp(e), with
\* distinct exponents and non-zero coefficients (k = "fin"), or NaN / +inf.
PolyFin(p) == [k |-> "fin", p |-> p]

PolyNaN == [k |-> "nan", p |-> {}]

PolyPInf == [k |-> "pinf", p |-> {}]

PolyNInf == [k |-> "ninf", p |-> {}]

CoefOf(p, e) ==
    IF \E t \in p : t.e = e THEN (CHOOSE t \in p : t.e = e).c ELSE R(0)

PAdd(p, q) ==
    LET es == {t.e : t \in p \cup q}
        all == {[e |-> e, c |-> Add(CoefOf(p, e), CoefOf(q, e))] : e \in es}
    IN  {t \in all : t.c # R(0)}

PShift(p, e, c) == {[e |-> Add(t.e, e), c |-> Mul(t.c, c)] : t \in p}

RECURSIVE PMul(_, _)
PMul(p, q) ==
    IF q = {} THEN {}
    ELSE LET t == CHOOSE u \in q : TRUE
         IN  PAdd(PShift(p, t.e, t.c), PMul(p, q \ {t}))

\* torch.exp on one element: exp(-inf) = 0.
Exp(s) ==
    IF s.k = "nan" THEN PolyNaN
    ELSE IF s.k = "pinf" THEN PolyPInf
    ELSE IF s.k = "ninf" THEN PolyFin({})
    ELSE PolyFin({[e |-> s.a, c |-> s.c]})

PolyAdd(x, y) ==
    IF x.k = "nan" \/ y.k = "nan" THEN PolyNaN
    ELSE IF x.k = "pinf" \/ y.k = "pinf" THEN PolyPInf
    ELSE PolyFin(PAdd(x.p, y.p))

\* -log(x) - m for a sum of exponentials x and a log-score m, kept as the
\* set p with value -ln(p): -ln(x) - (a + ln c) = -ln(x * c * exp(a)).
NegLogMinus(x, m) ==
    IF x.k = "nan" \/ m.k = "nan" THEN PolyNaN
    ELSE IF x.k = "pinf" THEN (IF m.k = "ninf" THEN PolyNaN ELSE PolyNInf)
    ELSE IF x.p = {} THEN (IF m.k = "pinf" THEN PolyNaN ELSE PolyPInf)
    ELSE IF m.k = "pinf" THEN PolyNInf
    ELSE IF m.k = "ninf" THEN PolyPInf
    ELSE PolyFin(PShift(x.p, m.a, m.c))

\* Sum of per-sample values -ln(p): -ln of the product.
NegLnAdd(x, y) ==
    IF x.k = "nan" \/ y.k = "nan" THEN PolyNaN
    ELSE IF x.k = "fin" /\ y.k = "fin" THEN PolyFin(PMul(x.p, y.p))
    ELSE IF x.k = "fin" THEN y
    ELSE IF y.k = "fin" THEN x
    ELSE IF x.k = y.k THEN x
    ELSE PolyNaN

\* A loss value: -(1/n) * ln(p) (k = "fin"), or NaN / +inf / -inf.
LossVal(x, n) == [k |-> x.k, n |-> n, p |-> x.p]

\* ------------------------------- pytorch_neg_multi_log_likelihood_batch
\* torch.allclose defaults: atol = 1/ATolDen, rtol = 1/RTolDen.
ATolDen == 100000000

RTolDen == 100000

AbsR(x) == <<Abs(x[1]), x[2]>>

\* |x - y| <= atol + rtol * |y|; NaN is close to nothing, an infinity only
\* to itself.
CloseTo(x, y) ==
    IF IsNaN(x) \/ IsNaN(y) THEN FALSE
    ELSE IF ~IsFinite(x) \/ ~IsFinite(y) THEN x = y
    ELSE LET d == AbsR(Sub(x, y))
         IN  d[1] <= ((y[2] + (ATolDen \div RTolDen) * Abs(y[1])) * d[2])
                        \div (ATolDen * y[2])

Ones(shape) == Tensor(shape, [k \in 1..Prod(shape) |-> R(1)])

AllClose(a, b) ==
    /\ a.shape = b.shape
    /\ \A k \in 1..Len(a.data) : CloseTo(a.data[k], b.data[k])

PredIs4D(p) == Len(p.shape) = 4

GtShapeOk(g, p) == g.shape = <<p.shape[1], p.shape[3], p.shape[4]>>

ConfShapeOk(c, p) == c.shape = <<p.shape[1], p.shape[2]>>

ConfSumOk(c, p) == AllClose(SumLast(c), Ones(<<p.shape[1]>>))

AvailsShapeOk(a, p) == a.shape = <<p.shape[1], p.shape[3]>>

\* avails[:, None, :, None]
AvailsView(a) == Unsqueeze(Unsqueeze(a, 1), 3)

\* The squared error without the availability.
UnmaskedSquare(g, p, a) == Map1(Square, Map2(Sub, g, p))

\* The availability applied after squaring.
SquareThenMask(g, p, a) == Map2(Mul, Map1(Square, Map2(Sub, g, p)), a)

\* ((gt - pred) * avails) ** 2
MaskedSquare(g, p, a) == Map1(Square, Map2(Mul, Map2(Sub, g, p), a))

\* torch.sum(((gt - pred) * avails) ** 2, dim=-1) on the broadcast views.
StepError(g, p, a) == SumLast(MaskedSquare(Unsqueeze(g, 1), p, AvailsView(a)))

HalfOf(x) == Mul(Half, x)

\* The score without the confidence term.
ScoreWithoutConfidence(c, e) == Map2(SymSubReal, Map1(Log, Ones(c.shape)), Map1(HalfOf, SumLast(e)))

\* torch.log(confidences) - 0.5 * torch.sum(error, dim=-1)
Score(c, e) == Map2(SymSubReal, Map1(Log, c), Map1(HalfOf, SumLast(e)))

KeepDim(t) == Tensor(t.shape \o <<1>>, t.data)

\* error.max(dim=1, keepdim=True)
MaxValue(e) == KeepDim(ReduceLast(SymMax, SymNInf, e))

\* -torch.log(torch.sum(torch.exp(error - max_value), dim=-1, keepdim=True)) - max_value
LogSumExp(e, m) ==
    Map2(NegLogMinus, KeepDim(ReduceLast(PolyAdd, PolyFin({}), Map1(Exp, Map2(SymSub, e, m)))), m)

PolyOne == PolyFin({[e |-> R(0), c |-> R(1)]})

\* torch.sum in place of torch.mean.
SumNotMean(e) == LossVal(FoldSeq(NegLnAdd, PolyOne, e.data), 1)

\* torch.mean(error): the sum of all elements over their number.
Mean(e) == LossVal(FoldSeq(NegLnAdd, PolyOne, e.data), Len(e.data))

\* The value returned for arguments that pass every assertion.
LossOf(g, p, c, a) ==
    LET s == Score(c, StepError(g, p, a))
    IN  Mean(LogSumExp(s, MaxValue(s)))

\* pytorch_neg_multi_log_likelihood_single: one mode of confidence 1.
SingleArgs(g, p, a) ==
    [gt |-> g, pred |-> Unsqueeze(p, 1), confidences |-> Ones(<<p.shape[1], 1>>), avails |-> a]

SingleLossOf(g, p, a) == LossOf(g, Unsqueeze(p, 1), Ones(<<p.shape[1], 1>>), a)

\* ------------------------------------------------------------ the inputs
\* Number of coordinates of a position: pred.view(bs, modes, future_len, 2).
NumCoords == 2

Coords == 0..MaxCoord

\* The offset between neighbouring modes: none (identical modes) or one.
Spreads == {0, 1}

\* Ground truth of sample b: the point (g, g + b - 1) at every step.
GtTensor(B, T, g) ==
    LET s == <<B, T, NumCoords>>
    IN  Tensor(s, [k \in 1..Prod(s) |->
                     LET i == Unflat(s, k) IN R(g + (i[3] - 1) * (i[1] - 1))])

\* Mode m of every sample: the straight line from (p + d(m-1), p + d(m-1))
\* with velocity (0, 1); d = 0 makes all modes identical.
PredTensor(B, M, T, p, d) ==
    LET s == <<B, M, T, NumCoords>>
    IN  Tensor(s, [k \in 1..Prod(s) |->
                     LET i == Unflat(s, k)
                     IN  R(p + d * (i[2] - 1) + (i[4] - 1) * (i[3] - 1))])

Rotate(row, by) == [i \in 1..Len(row) |-> row[((i - 1 + by) % Len(row)) + 1]]

\* Rows of one sample; sample b of a batch carries the row rotated by b - 1.
RowsTensor(B, row) ==
    Tensor(<<B, Len(row)>>,
           [k \in 1..(B * Len(row)) |->
              Rotate(row, (k - 1) \div Len(row))[((k - 1) % Len(row)) + 1]])

\* Availability rows: the first j steps masked (0) or down-weighted (1/2),
\* the rest available.
AvailRows(T) ==
    {[t \in 1..T |-> IF t <= j THEN w ELSE R(1)] : j \in 0..T, w \in {R(0), Half}}

\* Confidence rows: uniform, one-hot (the other modes have confidence 0),
\* skewed, one with a negative entry that still sums to 1, one that does not
\* sum to 1.
ConfRows(M) ==
    {[m \in 1..M |-> Norm(1, M)]}
      \cup {[m \in 1..M |-> IF m = j THEN R(1) ELSE R(0)] : j \in 1..M}
      \cup {[m \in 1..M |-> IF m = 1 THEN Half ELSE R(0)]}
      \cup (IF M = 1 THEN {}
            ELSE {[m \in 1..M |-> IF m = 1 THEN <<2, 3>> ELSE IF m = 2 THEN <<1, 3>> ELSE R(0)],
                  [m \in 1..M |-> IF m = 1 THEN R(2) ELSE IF m = 2 THEN R(-1) ELSE R(0)]})

Args(g, p, c, a) == [gt |-> g, pred |-> p, confidences |-> c, avails |-> a]

WellShapedFor(B, M, T) ==
    {Args(GtTensor(B, T, 0), PredTensor(B, M, T, p, d), RowsTensor(B, c), RowsTensor(B, a)) :
        p \in Coords, d \in Spreads, c \in ConfRows(M), a \in AvailRows(T)}

Shapes == (1..MaxB) \X (1..MaxM) \X (1..MaxT)

WellShaped == UNION {WellShapedFor(s[1], s[2], s[3]) : s \in Shapes}

\* Arguments that break one precondition: a tensor of the wrong rank or
\* extent, or one element that is NaN or infinite.
Plain(B, M, T) ==
    Args(GtTensor(B, T, 0), PredTensor(B, M, T, 1, 1),
         RowsTensor(B, [m \in 1..M |-> Norm(1, M)]), RowsTensor(B, [t \in 1..T |-> R(1)]))

Reshaped(t, shape) == Tensor(shape, [k \in 1..Prod(shape) |-> t.data[((k - 1) % Len(t.data)) + 1]])

Poisoned(t, k, v) == Tensor(t.shape, [t.data EXCEPT ![k] = v])

Specials == {NaN, PInf, NInf}

MisShaped(x, B, M, T) ==
    {[x EXCEPT !.pred = Reshaped(x.pred, <<B * M, T, NumCoords>>)],
     [x EXCEPT !.pred = Reshaped(x.pred, <<1, B, M, T, NumCoords>>)],
     [x EXCEPT !.gt = Reshaped(x.gt, <<B, T + 1, NumCoords>>)],
     [x EXCEPT !.gt = Reshaped(x.gt, <<B, T * NumCoords>>)],
     [x EXCEPT !.confidences = Reshaped(x.confidences, <<B, M + 1>>)],
     [x EXCEPT !.confidences = Reshaped(x.confidences, <<B * M>>)],
     [x EXCEPT !.avails = Reshaped(x.avails, <<B, T + 1>>)],
     [x EXCEPT !.avails = Reshaped(x.avails, <<B, T, 1>>)]}

NonFinite(x) ==
    UNION {{[x EXCEPT !.pred = Poisoned(x.pred, k, v)] : k \in {1, Len(x.pred.data)}}
             \cup {[x EXCEPT !.gt = Poisoned(x.gt, k, v)] : k \in {1, Len(x.gt.data)}}
             \cup {[x EXCEPT !.confidences = Poisoned(x.confidences, k, v)] :
                     k \in {1, Len(x.confidences.data)}}
             \cup {[x EXCEPT !.avails = Poisoned(x.avails, k, v)] : k \in {1, Len(x.avails.data)}} :
           v \in Specials}

Corrupted ==
    UNION {MisShaped(Plain(s[1], s[2], s[3]), s[1], s[2], s[3])
             \cup NonFinite(Plain(s[1], s[2], s[3])) : s \in Shapes}

BatchInputs == WellShaped \cup Corrupted

\* Arguments of the single-mode wrapper: pred has no mode axis.
SingleFor(B, T) ==
    {[gt |-> GtTensor(B, T, 0),
      pred |-> Tensor(<<B, T, NumCoords>>, PredTensor(B, 1, T, p, 0).data),
      avails |-> RowsTensor(B, a)] :
        p \in Coords, a \in AvailRows(T)}

SingleInputs == UNION {SingleFor(s[1], s[2]) : s \in (1..MaxB) \X (1..MaxT)}

\* ------------------------------------------------------------- the state
VARIABLES
    pc,           \* the statement the loss function is at
    entry,        \* "batch" or "single": the function that was called
    args,         \* the arguments of the call to the batch function
    gt,           \* the local gt (rebound by unsqueeze)
    avails,       \* the local avails (rebound by the indexing)
    error,        \* the local error: per step, per mode, then per sample
    max_value,    \* the local max_value
    loss,         \* the returned value
    raised,       \* the message of the assertion that failed
    ops,          \* the sum, max and mean reductions completed so far
    mpc,          \* the statement the model is at
    model,        \* the attributes of the LyftMultiModel instance
    x,            \* forward's local x: [shape, data]
    chunks,       \* the blocks torch.split returned
    mraised,      \* the error that ended construction or forward
    out           \* what forward returned: [pred, confidences]

lossVars == <<pc, entry, args, gt, avails, error, max_value, loss, raised, ops>>

modelVars == <<mpc, model, x, chunks, mraised, out>>

vars == <<pc, entry, args, gt, avails, error, max_value, loss, raised, ops, mpc, model, x, chunks, mraised, out>>

NoTensor == Tensor(<<0>>, <<>>)

NoArgs == Args(NoTensor, NoTensor, NoTensor, NoTensor)

NoLoss == [k |-> "none", n |-> 0, p |-> {}]

NoModel == [architecture |-> "", backbone_out_features |-> 0, future_len |-> 0,
            num_preds |-> 0, num_modes |-> 0, head_in |-> 0, logit_out |-> 0]

NoOut == [pred |-> NoTensor, confidences |-> NoTensor]

LossInit ==
    /\ pc = "idle"
    /\ entry = "none"
    /\ args = NoArgs
    /\ gt = NoTensor
    /\ avails = NoTensor
    /\ error = NoTensor
    /\ max_value = NoTensor
    /\ loss = NoLoss
    /\ raised = ""
    /\ ops = <<>>

ModelIdle ==
    /\ mpc = "idle"
    /\ model = NoModel
    /\ x = NoTensor
    /\ chunks = <<>>
    /\ mraised = ""
    /\ out = NoOut

Init == LossInit /\ ModelIdle

\* A call of pytorch_neg_multi_log_likelihood_batch.
CallBatch ==
    /\ pc = "idle"
    /\ \E a \in BatchInputs :
         /\ args' = a
         /\ gt' = a.gt
         /\ avails' = a.avails
    /\ entry' = "batch"
    /\ pc' = "assert_shapes"
    /\ UNCHANGED <<error, max_value, loss, raised, ops>>
    /\ UNCHANGED modelVars

\* A call of pytorch_neg_multi_log_likelihood_single, which builds the
\* confidences and the mode axis and calls the batch function.
CallSingle ==
    /\ pc = "idle"
    /\ \E a \in SingleInputs :
         /\ args' = SingleArgs(a.gt, a.pred, a.avails)
         /\ gt' = a.gt
         /\ avails' = a.avails
    /\ entry' = "single"
    /\ pc' = "assert_shapes"
    /\ UNCHANGED <<error, max_value, loss, raised, ops>>
    /\ UNCHANGED modelVars

Raise(msg) ==
    /\ pc' = "raised"
    /\ raised' = msg

\* The assertions on pred, gt and confidences shapes.
ShapeFault(a) ==
    IF ~PredIs4D(a.pred) THEN "expected 3D (MxTxC) array for pred"
    ELSE IF ~GtShapeOk(a.gt, a.pred) THEN "expected 2D (Time x Coords) array for gt"
    ELSE IF ~ConfShapeOk(a.confidences, a.pred) THEN "expected 1D (Modes) array for gt"
    ELSE ""

AssertShapes ==
    /\ pc = "assert_shapes"
    /\ IF ShapeFault(args) = ""
         THEN pc' = "assert_conf_sum" /\ UNCHANGED raised
         ELSE Raise(ShapeFault(args))
    /\ UNCHANGED <<entry, args, gt, avails, error, max_value, loss, ops>>
    /\ UNCHANGED modelVars

\* assert torch.allclose(torch.sum(confidences, dim=1), ones): the row sums
\* are computed, then compared.
AssertConfSum ==
    /\ pc = "assert_conf_sum"
    /\ ops' = Append(ops, "sum")
    /\ IF ConfSumOk(args.confidences, args.pred)
         THEN pc' = "assert_avails_finite" /\ UNCHANGED raised
         ELSE Raise("confidences should sum to 1")
    /\ UNCHANGED <<entry, args, gt, avails, error, max_value, loss>>
    /\ UNCHANGED modelVars

\* The assertion on the avails shape and the four finiteness assertions.
FiniteFault(a) ==
    IF ~AvailsShapeOk(a.avails, a.pred) THEN "expected 1D (Time) array for gt"
    ELSE IF ~AllFinite(a.pred) THEN "invalid value found in pred"
    ELSE IF ~AllFinite(a.gt) THEN "invalid value found in gt"
    ELSE IF ~AllFinite(a.confidences) THEN "invalid value found in confidences"
    ELSE IF ~AllFinite(a.avails) THEN "invalid value found in avails"
    ELSE ""

AssertAvailsFinite ==
    /\ pc = "assert_avails_finite"
    /\ IF FiniteFault(args) = ""
         THEN pc' = "step_error" /\ UNCHANGED raised
         ELSE Raise(FiniteFault(args))
    /\ UNCHANGED <<entry, args, gt, avails, error, max_value, loss, ops>>
    /\ UNCHANGED modelVars

\* gt and avails get their broadcast views; the squared masked error is
\* summed over the coordinates.
ComputeStepError ==
    /\ pc = "step_error"
    /\ gt' = Unsqueeze(gt, 1)
    /\ avails' = AvailsView(avails)
    /\ error' = StepError(gt, args.pred, avails)
    /\ ops' = Append(ops, "sum")
    /\ pc' = "score"
    /\ UNCHANGED <<entry, args, max_value, loss, raised>>
    /\ UNCHANGED modelVars

\* error = log(confidences) - 0.5 * sum over time of error
ComputeScore ==
    /\ pc = "score"
    /\ error' = Score(args.confidences, error)
    /\ ops' = Append(ops, "sum")
    /\ pc' = "reduce_modes"
    /\ UNCHANGED <<entry, args, gt, avails, max_value, loss, raised>>
    /\ UNCHANGED modelVars

\* The log-sum-exp over the modes around the per-sample maximum.
ReduceModes ==
    /\ pc = "reduce_modes"
    /\ max_value' = MaxValue(error)
    /\ error' = LogSumExp(error, MaxValue(error))
    /\ ops' = ops \o <<"max", "sum">>
    /\ pc' = "mean"
    /\ UNCHANGED <<entry, args, gt, avails, loss, raised>>
    /\ UNCHANGED modelVars

\* return torch.mean(error)
ReturnMean ==
    /\ pc = "mean"
    /\ loss' = Mean(error)
    /\ ops' = Append(ops, "mean")
    /\ pc' = "done"
    /\ UNCHANGED <<entry, args, gt, avails, error, max_value, raised>>
    /\ UNCHANGED modelVars

Next ==
    \/ CallBatch
    \/ CallSingle
    \/ AssertShapes
    \/ AssertConfSum
    \/ AssertAvailsFinite
    \/ ComputeStepError
    \/ ComputeScore
    \/ ReduceModes
    \/ ReturnMean

Spec == Init /\ [][Next]_vars

\* --------------------------------------------------------- LyftMultiModel
NumModes == 3

FutureLen == 50

HistoryNumFrames == 10

RasterSize == 224

HeadWidth == 4096

NarrowWidth == 512

WideWidth == 2048

Architectures == {"resnet18", "resnet34", "resnet50", "resnet101"}

\* The width of the backbone's pooled output: 512 for resnet18 and resnet34,
\* 2048 for the other resnets.
BackboneWidth(arch) == IF arch \in {"resnet18", "resnet34"} THEN NarrowWidth ELSE WideWidth

\* The width __init__ gives the head.
BackboneOutFeatures(arch) == IF arch = "resnet50" THEN WideWidth ELSE NarrowWidth

NumInChannels == 3 + (HistoryNumFrames + 1) * 2

\* __init__: the attributes of the instance; nothing is checked.
NewModel(arch, modes) ==
    [architecture |-> arch,
     backbone_out_features |-> BackboneOutFeatures(arch),
     future_len |-> FutureLen,
     num_preds |-> 2 * FutureLen * modes,
     num_modes |-> modes,
     head_in |-> BackboneOutFeatures(arch),
     logit_out |-> 2 * FutureLen * modes + modes]

\* torch.split(t, size, dim=1) of a 2-D tensor: blocks of size columns, the
\* last one shorter when size does not divide the width.
ColBlock(t, from, to) ==
    Tensor(<<t.shape[1], to - from + 1>>,
           [k \in 1..(t.shape[1] * (to - from + 1)) |->
              t.data[((k - 1) \div (to - from + 1)) * t.shape[2]
                       + from + ((k - 1) % (to - from + 1))]])

Min2(i, j) == IF i <= j THEN i ELSE j

SplitCols(t, size) ==
    [i \in 1..((t.shape[2] + size - 1) \div size) |->
       ColBlock(t, (i - 1) * size + 1, Min2(i * size, t.shape[2]))]

\* torch.softmax over the last axis of integer logits: exp(x - max) over the
\* sum of the row's exp(x - max), kept as [num, den], two sums of exponentials.
MaxInt(i, j) == IF i >= j THEN i ELSE j

ExpInt(i) == {[e |-> R(i), c |-> R(1)]}

\* exp(x - max) without the division by the row's sum.
SoftmaxRowUnnormalised(row) ==
    LET mx == FoldSeq(MaxInt, Head(row), Tail(row))
    IN  [i \in 1..Len(row) |-> [num |-> ExpInt(row[i] - mx), den |-> ExpInt(0)]]

SoftmaxRow(row) ==
    LET mx == FoldSeq(MaxInt, Head(row), Tail(row))
        den == FoldSeq(PAdd, {}, [i \in 1..Len(row) |-> ExpInt(row[i] - mx)])
    IN  [i \in 1..Len(row) |-> [num |-> ExpInt(row[i] - mx), den |-> den]]

Softmax(t) ==
    Tensor(t.shape,
           [k \in 1..Len(t.data) |->
              SoftmaxRow(SubSeq(t.data, ((k - 1) \div t.shape[2]) * t.shape[2] + 1,
                                ((k - 1) \div t.shape[2] + 1) * t.shape[2]))
                [((k - 1) % t.shape[2]) + 1]])

\* The output of the last linear layer: the weights are not modelled, so any
\* values may come out.  Row b holds a ramp from seed and ends in the
\* confidence logits tail, rotated by b - 1.
Logits == (0 - MaxLogit)..MaxLogit

LogitData(B, width, modes, seed, tail) ==
    [k \in 1..(B * width) |->
       LET b == (k - 1) \div width
           j == ((k - 1) % width) + 1
       IN  IF j <= width - modes
             THEN ((seed + j + b) % (2 * MaxLogit + 1)) - MaxLogit
             ELSE Rotate(tail, b)[j - (width - modes)]]

\* model = LyftMultiModel(cfg): the architecture is the configuration's.
Construct ==
    /\ mpc = "idle"
    /\ \E arch \in Architectures : model' = NewModel(arch, NumModes)
    /\ mpc' = "built"
    /\ UNCHANGED <<x, chunks, mraised, out>>
    /\ UNCHANGED lossVars

\* model(inputs) on a batch of B rasters.
CallForward ==
    /\ mpc = "built"
    /\ \E B \in 1..MaxB : x' = Tensor(<<B, NumInChannels, RasterSize, RasterSize>>, <<>>)
    /\ mpc' = "backbone"
    /\ UNCHANGED <<model, chunks, mraised, out>>
    /\ UNCHANGED lossVars

\* conv1 .. avgpool and flatten: (B, backbone width).  The features are
\* opaque: only the shape of x is tracked up to the last linear layer.
Backbone ==
    /\ mpc = "backbone"
    /\ x' = Tensor(<<x.shape[1], BackboneWidth(model.architecture)>>, <<>>)
    /\ mpc' = "head"
    /\ UNCHANGED <<model, chunks, mraised, out>>
    /\ UNCHANGED lossVars

\* x = self.head(x): the linear layer multiplies (B, w) by (head_in, 4096).
HeadLayer ==
    /\ mpc = "head"
    /\ IF x.shape[2] = model.head_in
         THEN /\ x' = Tensor(<<x.shape[1], HeadWidth>>, <<>>)
              /\ mpc' = "logit"
              /\ UNCHANGED mraised
         ELSE /\ mpc' = "failed"
              /\ mraised' = "mat1 and mat2 shapes cannot be multiplied"
              /\ UNCHANGED x
    /\ UNCHANGED <<model, chunks, out>>
    /\ UNCHANGED lossVars

\* x = self.logit(x)
Logit ==
    /\ mpc = "logit"
    /\ \E seed \in Logits, tail \in [1..model.num_modes -> Logits] :
         x' = Tensor(<<x.shape[1], model.logit_out>>,
                     LogitData(x.shape[1], model.logit_out, model.num_modes, seed, tail))
    /\ mpc' = "split"
    /\ UNCHANGED <<model, chunks, mraised, out>>
    /\ UNCHANGED lossVars

\* pred, confidences = torch.split(x, self.num_preds, dim=1): unpacking
\* needs exactly two blocks.
Split ==
    /\ mpc = "split"
    /\ chunks' = SplitCols(x, model.num_preds)
    /\ IF Len(SplitCols(x, model.num_preds)) = 2
         THEN mpc' = "view" /\ UNCHANGED mraised
         ELSE mpc' = "failed" /\ mraised' = "not enough or too many values to unpack"
    /\ UNCHANGED <<model, x, out>>
    /\ UNCHANGED lossVars

\* pred.view(bs, modes, future_len, 2), the assertion on the confidences
\* shape, the softmax and the return.
ViewShape == <<x.shape[1], model.num_modes, model.future_len, NumCoords>>

ViewSoftmaxReturn ==
    /\ mpc = "view"
    /\ IF Prod(ViewShape) # Len(chunks[1].data)
         THEN /\ mpc' = "failed"
              /\ mraised' = "shape is invalid for input size"
              /\ UNCHANGED out
         ELSE IF chunks[2].shape # <<x.shape[1], model.num_modes>>
         THEN /\ mpc' = "failed"
              /\ mraised' = "AssertionError"
              /\ UNCHANGED out
         ELSE /\ mpc' = "returned"
              /\ out' = [pred |-> Tensor(ViewShape, chunks[1].data),
                         confidences |-> Softmax(chunks[2])]
              /\ UNCHANGED mraised
    /\ UNCHANGED <<model, x, chunks>>
    /\ UNCHANGED lossVars

ModelNext ==
    \/ Construct
    \/ CallForward
    \/ Backbone
    \/ HeadLayer
    \/ Logit
    \/ Split
    \/ ViewSoftmaxReturn

SpecModel == Init /\ [][ModelNext]_vars

\* ------------------------------------------------------------ properties
BatchSize == args.pred.shape[1]

Modes == args.pred.shape[2]

Steps == args.pred.shape[3]

PredCells == 1..Len(args.pred.data)

\* Cell k of pred lies at a (sample, step) whose availability is 0.
MaskedCell(k) ==
    LET i == Unflat(args.pred.shape, k) IN At(args.avails, <<i[1], i[3]>>) = R(0)

\* gt - pred at cell k of pred.
CellDiff(k) ==
    LET i == Unflat(args.pred.shape, k)
    IN  Sub(At(args.gt, <<i[1], i[3], i[4]>>), args.pred.data[k])

\* Values a prediction is changed to.
OtherValues == {R(0 - MaxCoord - 6), <<1, 3>>}

MaskedCells == {k \in PredCells : MaskedCell(k)}

\* pred with every cell of the set cells set to v.
Repainted(cells, v) ==
    Tensor(args.pred.shape, [k \in PredCells |-> IF k \in cells THEN v ELSE args.pred.data[k]])

\* Every masked cell changed, or the first or the last one alone.
MaskedVariants ==
    IF MaskedCells = {} THEN {}
    ELSE {Repainted(cells, v) :
            cells \in {MaskedCells,
                       {CHOOSE k \in MaskedCells : \A j \in MaskedCells : k <= j},
                       {CHOOSE k \in MaskedCells : \A j \in MaskedCells : k >= j}},
            v \in OtherValues}

\* C1: once a call has returned, every argument list that differs from it
\* only in predictions at (sample, step) positions of availability 0 returns
\* the same loss, and such a step's error is exactly zero in every mode.
C1_MaskedStepsDoNotCount ==
    pc = "done" =>
      /\ \A q \in MaskedVariants :
           LossOf(args.gt, q, args.confidences, args.avails) = loss
      /\ LET e == StepError(args.gt, args.pred, args.avails)
         IN  \A k \in MaskedCells :
               LET i == Unflat(args.pred.shape, k) IN At(e, <<i[1], i[2], i[3]>>) = R(0)

\* A returned call with a masked step where the prediction misses the ground
\* truth, beside an available step.
C1_Witness ==
    /\ pc = "done"
    /\ loss.k = "fin"
    /\ \E k \in PredCells : MaskedCell(k) /\ CellDiff(k) # R(0)
    /\ \E k \in PredCells : ~MaskedCell(k) /\ CellDiff(k) # R(0)

AllOnes(t) == \A k \in 1..Len(t.data) : t.data[k] = R(1)

\* The sum over the cells of one sample of (gt - pred)^2.
SampleSquares(b) ==
    FoldSeq(Add, R(0),
            [k \in 1..(Modes * Steps * NumCoords) |->
               Square(CellDiff((b - 1) * Modes * Steps * NumCoords + k))])

MeanSquares ==
    Mul(FoldSeq(Add, R(0), [b \in 1..BatchSize |-> SampleSquares(b)]), <<1, BatchSize>>)

\* The rational a loss value denotes when it is -(1/n) ln(exp(e)) = -e/n.
IsRationalLoss(l) == l.k = "fin" /\ \E e \in {t.e : t \in l.p} : l.p = {[e |-> e, c |-> R(1)]}

LossAsRational(l) == Mul(Neg((CHOOSE t \in l.p : TRUE).e), <<1, l.n>>)

\* C2: with one mode of confidence 1 and every step available, the returned
\* loss is half the batch mean of the samples' summed squared errors.
C2_SingleModeIsHalfMeanSquares ==
    (pc = "done" /\ Modes = 1 /\ AllOnes(args.confidences) /\ AllOnes(args.avails)) =>
      /\ IsRationalLoss(loss)
      /\ LossAsRational(loss) = Mul(Half, MeanSquares)

\* The wrapper returned for a batch of two or more samples with different
\* non-zero errors.
C2_Witness ==
    /\ pc = "done"
    /\ entry = "single"
    /\ AllOnes(args.avails)
    /\ BatchSize >= 2
    /\ SampleSquares(1) # R(0)
    /\ SampleSquares(1) # SampleSquares(2)

\* Every mode of every sample predicts the trajectory of mode 1.
ModesIdentical ==
    \A k \in PredCells :
      LET i == Unflat(args.pred.shape, k)
      IN  args.pred.data[k] = At(args.pred, <<i[1], 1, i[3], i[4]>>)

ConfUniform == \A k \in 1..Len(args.confidences.data) : args.confidences.data[k] = Norm(1, Modes)

\* pred[:, 0]: the trajectory of mode 1, without the mode axis.
FirstMode ==
    LET s == <<BatchSize, Steps, NumCoords>>
    IN  Tensor(s, [k \in 1..Prod(s) |->
                     LET i == Unflat(s, k) IN At(args.pred, <<i[1], 1, i[2], i[3]>>)])

RECURSIVE Power(_, _)
Power(i, n) == IF n = 0 THEN 1 ELSE i * Power(i, n - 1)

\* l + ln(m): -(1/n) ln(p) + ln(m) = -(1/n) ln(p / m^n).
PlusLog(l, m) == [l EXCEPT !.p = PShift(l.p, R(0), <<1, Power(m, l.n)>>)]

SingleModeLoss == SingleLossOf(args.gt, FirstMode, args.avails)

\* C3 as stated: with identical modes and uniform confidences the loss is
\* the single-mode loss plus log(M).
C3_Original_PlusLogM ==
    (pc = "done" /\ ModesIdentical /\ ConfUniform) => loss = PlusLog(SingleModeLoss, Modes)

\* C3 amended: with identical modes and uniform confidences the loss is the
\* single-mode loss itself: the log(M) of the log-sum-exp of M equal terms
\* cancels the log(1/M) of the confidence.
C3_IdenticalModesEqualSingle ==
    (pc = "done" /\ ModesIdentical /\ ConfUniform) => loss = SingleModeLoss

\* A returned call with two or more identical modes of uniform confidence,
\* a non-zero error and two or more samples.
C3_Witness ==
    /\ pc = "done"
    /\ entry = "batch"
    /\ Modes >= 2
    /\ BatchSize >= 2
    /\ ModesIdentical
    /\ ConfUniform
    /\ loss.k = "fin"
    /\ loss.p # PolyOne.p

\* The preconditions of the batch function, read off the arguments.
RowSum(c, b) == FoldSeq(Add, R(0), [m \in 1..c.shape[2] |-> At(c, <<b, m>>)])

HasNonFinite(t) == \E k \in 1..Len(t.data) : t.data[k] \in Specials

Invalid(a) ==
    \/ Len(a.pred.shape) # 4
    \/ /\ Len(a.pred.shape) = 4
       /\ \/ a.gt.shape # <<a.pred.shape[1], a.pred.shape[3], a.pred.shape[4]>>
          \/ a.confidences.shape # <<a.pred.shape[1], a.pred.shape[2]>>
          \/ a.avails.shape # <<a.pred.shape[1], a.pred.shape[3]>>
          \/ /\ a.confidences.shape = <<a.pred.shape[1], a.pred.shape[2]>>
             /\ \E b \in 1..a.pred.shape[1] : ~CloseTo(RowSum(a.confidences, b), R(1))
    \/ HasNonFinite(a.pred)
    \/ HasNonFinite(a.gt)
    \/ HasNonFinite(a.confidences)
    \/ HasNonFinite(a.avails)

Computing == pc \in {"step_error", "score", "reduce_modes", "mean", "done"}

\* C4: a call whose arguments break a precondition never gets past the
\* assertions: it computes nothing and returns no loss, and when it has
\* stopped it has stopped in a failed assertion.
C4_InvalidArgumentsRejected ==
    (entry # "none" /\ Invalid(args)) =>
      /\ ~Computing
      /\ loss = NoLoss
      /\ error = NoTensor
      /\ (pc = "raised" => raised # "")

\* Each kind of invalid argument has been rejected.
C4_Witness ==
    /\ pc = "raised"
    /\ Invalid(args)
    /\ raised = "invalid value found in gt"

ArithmeticReductions == {"sum", "max", "mean"}

\* C5 as stated: when an input holds a non-finite value, no sum, max or mean
\* reduction has completed when the error is raised.
C5_Original_NoReductionBeforeRaise ==
    (pc = "raised"
       /\ (HasNonFinite(args.pred) \/ HasNonFinite(args.gt)
             \/ HasNonFinite(args.confidences) \/ HasNonFinite(args.avails))) =>
      \A i \in 1..Len(ops) : ops[i] \notin ArithmeticReductions

\* The (sample, mode) error the claim describes: each step's squared error
\* weighted once by its availability.
WeightedOnce(b, m) ==
    FoldSeq(Add, R(0),
            [j \in 1..(Steps * NumCoords) |->
               LET k == ((b - 1) * Modes + (m - 1)) * Steps * NumCoords + j
               IN  Mul(At(args.avails, <<b, Unflat(args.pred.shape, k)[3]>>), Square(CellDiff(k)))])

\* The same with the availability squared.
WeightedTwice(b, m) ==
    FoldSeq(Add, R(0),
            [j \in 1..(Steps * NumCoords) |->
               LET k == ((b - 1) * Modes + (m - 1)) * Steps * NumCoords + j
               IN  Mul(Square(At(args.avails, <<b, Unflat(args.pred.shape, k)[3]>>)),
                       Square(CellDiff(k)))])

\* The raw per-mode error: the step errors summed over time, as the score
\* statement reads them.
RawError == SumLast(error)

\* C8 as stated: the raw per-mode error weights each step's squared error by
\* its availability, once.
C8_Original_WeightedOnce ==
    pc = "score" =>
      \A b \in 1..BatchSize, m \in 1..Modes : At(RawError, <<b, m>>) = WeightedOnce(b, m)

\* C8 amended: the raw per-mode error is the sum over steps and coordinates
\* of (avail * (gt - pred))^2, the squared error weighted by the square of
\* the availability; for the flags 0 and 1 that is the availability itself.
C8_WeightedBySquare ==
    pc = "score" =>
      /\ \A b \in 1..BatchSize, m \in 1..Modes : At(RawError, <<b, m>>) = WeightedTwice(b, m)
      /\ (\A k \in 1..Len(args.avails.data) : args.avails.data[k] \in {R(0), R(1)}) =>
           \A b \in 1..BatchSize, m \in 1..Modes : At(RawError, <<b, m>>) = WeightedOnce(b, m)

\* A step of weight 1/2 with a non-zero error has been summed.
C8_Witness ==
    /\ pc = "score"
    /\ \E k \in PredCells :
         /\ At(args.avails, <<Unflat(args.pred.shape, k)[1], Unflat(args.pred.shape, k)[3]>>) = Half
         /\ CellDiff(k) # R(0)

ConfAt(b, m) == At(args.confidences, <<b, m>>)

ConfNonNegative == \A k \in 1..Len(args.confidences.data) : args.confidences.data[k][1] >= 0

\* The cells of pred that belong to a mode of confidence 0.
DroppedCells ==
    {k \in PredCells : ConfAt(Unflat(args.pred.shape, k)[1], Unflat(args.pred.shape, k)[2]) = R(0)}

DroppedVariants ==
    IF DroppedCells = {} THEN {}
    ELSE {Repainted(cells, v) :
            cells \in {DroppedCells,
                       {CHOOSE k \in DroppedCells : \A j \in DroppedCells : k <= j},
                       {CHOOSE k \in DroppedCells : \A j \in DroppedCells : k >= j}},
            v \in OtherValues}

\* Every sample has a mode of confidence 0; FirstZero(b) is its first one.
EverySampleDrops == \A b \in 1..BatchSize : \E m \in 1..Modes : ConfAt(b, m) = R(0)

FirstZero(b) == CHOOSE m \in 1..Modes : ConfAt(b, m) = R(0) /\ \A j \in 1..(m - 1) : ConfAt(b, j) # R(0)

Kept(b, m) == IF m < FirstZero(b) THEN m ELSE m + 1

\* pred and confidences without each sample's first mode of confidence 0.
RemainingPred ==
    LET s == <<BatchSize, Modes - 1, Steps, NumCoords>>
    IN  Tensor(s, [k \in 1..Prod(s) |->
                     LET i == Unflat(s, k) IN At(args.pred, <<i[1], Kept(i[1], i[2]), i[3], i[4]>>)])

RemainingConf ==
    LET s == <<BatchSize, Modes - 1>>
    IN  Tensor(s, [k \in 1..Prod(s) |-> LET i == Unflat(s, k) IN ConfAt(i[1], Kept(i[1], i[2]))])

\* C9: for arguments that meet the preconditions with non-negative
\* confidences, the trajectory of a mode of confidence 0 does not affect the
\* returned loss, the loss is the one of the remaining modes, -inf is never
\* the subtracted maximum and no NaN arises.
C9_ZeroConfidenceModeDropped ==
    (pc = "done" /\ ConfNonNegative) =>
      /\ loss.k = "fin"
      /\ \A k \in 1..Len(max_value.data) : max_value.data[k].k = "fin"
      /\ \A k \in 1..Len(error.data) : error.data[k].k = "fin"
      /\ \A q \in DroppedVariants :
           LossOf(args.gt, q, args.confidences, args.avails) = loss
      /\ EverySampleDrops =>
           LossOf(args.gt, RemainingPred, RemainingConf, args.avails) = loss

\* A returned call with two samples, each with a mode of confidence 0 whose
\* prediction misses the ground truth at an available step.
C9_Witness ==
    /\ pc = "done"
    /\ ConfNonNegative
    /\ BatchSize >= 2
    /\ EverySampleDrops
    /\ FirstZero(1) # FirstZero(2)
    /\ \E k \in DroppedCells : ~MaskedCell(k) /\ CellDiff(k) # R(0)

\* C10 as stated: every call that passes the assertions returns a finite
\* loss.
C10_AcceptedLossFinite == pc = "done" => loss.k = "fin"

\* ------------------------------------------------ properties of the model
\* A confidence, [num, den], is non-negative: both sums of exponentials have
\* positive coefficients only.
Positive(p) == p # {} /\ \A t \in p : t.c[1] > 0 /\ t.c[2] > 0

RowSumsToOne(c, b) ==
    LET den == At(c, <<b, 1>>).den
    IN  /\ \A m \in 1..c.shape[2] : At(c, <<b, m>>).den = den
        /\ FoldSeq(PAdd, {}, [m \in 1..c.shape[2] |-> At(c, <<b, m>>).num]) = den

\* C6: a forward pass that returns has split the output of the last linear
\* layer, of width 2 * 50 * 3 + 3, into exactly two blocks, and returns pred
\* of shape (B, 3, 50, 2) and confidences of shape (B, 3) whose rows are
\* non-negative and sum to 1; the split and the view never fail.
C6_DecoderOutputContract ==
    /\ mpc = "returned" =>
         /\ x.shape = <<x.shape[1], 2 * FutureLen * NumModes + NumModes>>
         /\ Len(chunks) = 2
         /\ out.pred.shape = <<x.shape[1], NumModes, FutureLen, NumCoords>>
         /\ Len(out.pred.data) = x.shape[1] * NumModes * FutureLen * NumCoords
         /\ out.confidences.shape = <<x.shape[1], NumModes>>
         /\ \A b \in 1..x.shape[1] :
              /\ \A m \in 1..NumModes :
                   /\ At(out.confidences, <<b, m>>).num = {} \/ Positive(At(out.confidences, <<b, m>>).num)
                   /\ Positive(At(out.confidences, <<b, m>>).den)
              /\ RowSumsToOne(out.confidences, b)
    /\ mpc = "failed" => mraised = "mat1 and mat2 shapes cannot be multiplied"

\* A forward pass returned for the largest batch with confidences that are
\* not uniform.
C6_Witness ==
    /\ mpc = "returned"
    /\ x.shape[1] = MaxB
    /\ At(out.confidences, <<1, 1>>) # At(out.confidences, <<1, 2>>)
    /\ At(out.confidences, <<1, 1>>) # At(out.confidences, <<2, 1>>)

\* C7 as stated: no constructed model fails in forward because the head's
\* width differs from the backbone's.
C7_WidthMismatchCaughtAtConstruction ==
    ~(mpc = "failed" /\ mraised = "mat1 and mat2 shapes cannot be multiplied")

====
